---- MODULE Spec2Model ----
(***************************************************************************)
(* SentinelCCTV backend (src/backend/server.py): the stream_worker thread  *)
(* that owns the capture connection, and the Flask handlers set_stream,    *)
(* stop_stream and status that mutate / read the shared `state` dict under *)
(* state_lock.  cv2.VideoCapture, cap.read, cv2.imencode and socketio.emit *)
(* are the environment: their outcomes are chosen nondeterministically.    *)
(***************************************************************************)
EXTENDS Integers, Sequences, FiniteSets, TLC

\* ---------------------------------------------------------------- bounds
\* Longest list of column names (columns, where keys, order_by, data keys,
\* return_columns) a caller passes to PostgresClient.
MaxList == 2

\* Environment events in one run: requests to the control plane, captures that
\* fail to open, captures that break, frames delivered.
MaxEvents == 3
\* The consecutive-miss counter saturates here.
MaxMiss == 2

\* ------------------------------------------------------- python values
\* Python's None, for state['rtsp_url'], url, last_url.
None == "<None>"
\* state['rtsp_url'] at import time (server.py line 25).
DefaultUrl == "rtsp:/192.168.1.20:554/mjpeg/1"
\* Non-empty addresses a client sends.
ClientUrls == {"camA", "camB"}
\* What data.get('rtsp_url') can yield: absent (None), empty, or an address.
RequestArgs == {None, ""} \cup ClientUrls
\* Python truthiness of an optional string: `if url` / `not url`.
Truthy(u) == u # None /\ u # ""

\* cap = None is handle index 0; otherwise an index into handles.
NoCap == 0
NoFrame == [no |-> 0, boxes |-> 0, from |-> 0]
NoHttp == [op |-> "none", code |-> 0, ok |-> FALSE, echo |-> None]
NoStreak == [cap |-> 0, n |-> 0]
\* No PostgresClient call made yet, and nothing handed to cur.execute.
NoCall == [op |-> "none", table |-> None, columns |-> << >>, where |-> << >>,
           where_sql |-> None, where_params |-> << >>, order_by |-> << >>,
           limit |-> << >>, data |-> << >>, return_columns |-> << >>]
NoQuery == [text |-> << >>, params |-> << >>, raised |-> FALSE]

VARIABLES
  state,      \* the module-level dict: [rtsp_url, running]
  lock,       \* state_lock: "free" or "worker"
  pc,         \* stream_worker's position
  url,        \* stream_worker local
  last_url,   \* stream_worker local
  cap,        \* stream_worker local: index of the capture object, 0 = None
  frame,      \* stream_worker local: the frame of the last cap.read()
  faces,      \* stream_worker local: len(faces) of the last detection
  jpeg,       \* stream_worker local: "none", "ok" or "empty" (imencode's buffer)
  handles,    \* every cv2.VideoCapture made so far: [url, ok, opened, rel]
  captured,   \* detections (box counts) of the frames the sources delivered
  emitted,    \* socketio.emit('frame', ...) calls so far
  http,       \* the last request handled and its response
  nev,        \* environment events so far
  slept,      \* a time.sleep has run since the last VideoCapture call
  sinceStop,  \* emits since state['rtsp_url'] last became empty
  streak,     \* read misses on the current handle with nothing else changing
  pending,    \* the address of the last accepted set_stream not yet opened
  superseded, \* an address overwritten by another set_stream before its open
  fresh,      \* url was read from state after the last write to state
  written,    \* the address of the last accepted write of the control plane
  readBroken, \* the capture a cap.read() was last issued on while not opened
  kept,       \* the opened capture held when stop_stream emptied the address
  idled,      \* the worker took the idle sleep since then, still holding it
  dbcall,     \* the last PostgresClient call: method and arguments
  dbquery     \* what that call handed to cur.execute: [text, params]

vars == <<state, lock, pc, url, last_url, cap, frame, faces, jpeg, handles,
          captured, emitted, http, nev, slept, sinceStop,
          streak, pending, superseded, fresh, written, readBroken, kept,
          idled, dbcall, dbquery>>

worker == <<pc, url, last_url, cap, frame, faces, jpeg>>
env == <<handles, captured, nev>>
ghost == <<slept, sinceStop, streak, pending, superseded, fresh>>
obs == <<written, kept, idled>>
db == <<dbcall, dbquery>>
server == <<state, lock, pc, url, last_url, cap, frame, faces, jpeg, handles,
            captured, emitted, http, nev, slept, sinceStop, streak, pending,
            superseded, fresh, written, readBroken, kept, idled>>

Init ==
  /\ state = [rtsp_url |-> DefaultUrl, running |-> TRUE]
  /\ lock = "free"
  /\ pc = "top"
  /\ url = None
  /\ last_url = None
  /\ cap = NoCap
  /\ frame = NoFrame
  /\ faces = 0
  /\ jpeg = "none"
  /\ handles = << >>
  /\ captured = << >>
  /\ emitted = << >>
  /\ http = NoHttp
  /\ nev = 0
  /\ slept = FALSE
  /\ sinceStop = 0
  /\ streak = NoStreak
  /\ pending = None
  /\ superseded = None
  /\ fresh = FALSE
  /\ written = DefaultUrl
  /\ readBroken = NoCap
  /\ kept = NoCap
  /\ idled = FALSE
  /\ dbcall = NoCall
  /\ dbquery = NoQuery

\* ------------------------------------------------------------ the worker
\* cap.release() on a capture object (lines 57, 71, 112).
Release(h) == [h EXCEPT !.opened = FALSE, !.rel = @ + 1]

\* cv2.VideoCapture(u): a new capture object, opened or not (lines 63, 74).
\* `ok` keeps what the call returned; `rel` counts release() calls on it.
NewCapture(u, ok) == [url |-> u, ok |-> ok, opened |-> ok, rel |-> 0]

\* OpenTarget with the wrong variable: cv2.VideoCapture(last_url).
OpenTargetStale(u, last) == last

\* Lines 63 and 74: the address handed to cv2.VideoCapture.
OpenTarget(u, last) == u

\* cap.isOpened() for the worker's cap (line 67).
IsOpened(c) == c # NoCap /\ handles[c].opened

\* PollBranch without the release of lines 55-60: the old capture is dropped.
PollBranchNoRelease(u, last, c) ==
  IF ~Truthy(u) THEN "idle"
  ELSE IF u # last THEN "open1"
  ELSE "check"

\* PollBranch that idles on an empty address only when no capture is held.
PollBranchKeepsStreaming(u, last, c) ==
  IF ~Truthy(u) THEN (IF c # NoCap THEN "check" ELSE "idle")
  ELSE IF u # last THEN (IF c # NoCap THEN "release1" ELSE "open1")
  ELSE "check"

\* Lines 48-55: where an iteration goes once url is read.
PollBranch(u, last, c) ==
  IF ~Truthy(u) THEN "idle"
  ELSE IF u # last THEN (IF c # NoCap THEN "release1" ELSE "open1")
  ELSE "check"

\* CheckBranch that tests only `cap is None`: a capture that never opened is
\* read from instead of being replaced.
CheckBranchNoRetry(c) == IF c = NoCap THEN "open2" ELSE "read"

\* Lines 67-71: open again unless cap is an opened capture.
CheckBranch(c) ==
  IF c = NoCap \/ ~IsOpened(c)
  THEN (IF c # NoCap THEN "release2" ELSE "open2")
  ELSE "read"

\* AfterOpen1 without the sleep of line 65.
AfterOpen1NoSleep == "check"

\* Line 65: the statement after the first VideoCapture call.
AfterOpen1 == "sleep1"

\* AfterMiss that treats a failed read as a broken connection.
AfterMissReconnects == "release2"

\* Lines 79-82: a failed read sleeps and continues with the next iteration.
AfterMiss == "top"

\* CountFaces that reports no detection whatever the detector returned.
CountFacesZero(f) == 0

\* Line 92 and line 104: len(faces) for the detector's result on the frame.
CountFaces(f) == f.boxes

\* Line 104: the payload of socketio.emit('frame', ...); `no` names the frame
\* whose pixels the image holds (0: the empty buffer of a failed imencode).
Message(f, j, n) == [no |-> f.no, image |-> IF j = "ok" THEN f.no ELSE 0, faces |-> n]

\* Line 44: while state['running'] (read without state_lock).
Top ==
  /\ pc = "top"
  /\ pc' = IF state.running THEN "acquire" ELSE "cleanup"
  /\ UNCHANGED <<state, lock, url, last_url, cap, frame, faces, jpeg, env,
                 emitted, http, ghost>>
  /\ UNCHANGED <<obs, readBroken, db>>

\* Line 45: with state_lock (enter).
Acquire ==
  /\ pc = "acquire"
  /\ lock = "free"
  /\ lock' = "worker"
  /\ pc' = "poll"
  /\ UNCHANGED <<state, url, last_url, cap, frame, faces, jpeg, env,
                 emitted, http, ghost>>
  /\ UNCHANGED <<obs, readBroken, db>>

\* LockAfterSnapshot with the rest of the iteration inside the with block.
LockHeldAfterSnapshot == "worker"

\* Lines 45-47: the with block ends after the one assignment.
LockAfterSnapshot == "free"

\* Lines 46-55: url = state['rtsp_url'], leave the lock, branch.
Poll ==
  /\ pc = "poll"
  /\ url' = state.rtsp_url
  /\ lock' = LockAfterSnapshot
  /\ pc' = PollBranch(state.rtsp_url, last_url, cap)
  /\ fresh' = TRUE
  /\ UNCHANGED <<state, last_url, cap, frame, faces, jpeg, env, emitted, http,
                 slept, sinceStop, streak, pending, superseded>>
  /\ UNCHANGED <<obs, readBroken, db>>

\* LastUrlAfterIdle that forgets the address while none is configured.
LastUrlForgotten(last) == None

\* Lines 48-51: the idle branch assigns neither last_url nor cap.
LastUrlAfterIdle(last) == last

\* Lines 50-51: time.sleep(0.5); continue.
Idle ==
  /\ pc = "idle"
  /\ pc' = "top"
  /\ slept' = TRUE
  /\ last_url' = LastUrlAfterIdle(last_url)
  /\ UNCHANGED <<state, lock, url, cap, frame, faces, jpeg, env,
                 emitted, http, sinceStop, streak, pending, superseded,
                 fresh>>
  /\ idled' = (kept # NoCap)
  /\ UNCHANGED <<written, kept, readBroken, db>>

\* Lines 56-60: cap.release() (errors swallowed); cap = None.
Release1 ==
  /\ pc = "release1"
  /\ handles' = [handles EXCEPT ![cap] = Release(@)]
  /\ cap' = NoCap
  /\ pc' = "open1"
  /\ UNCHANGED <<state, lock, url, last_url, frame, faces, jpeg, captured,
                 nev, emitted, http, ghost>>
  /\ UNCHANGED <<obs, readBroken, db>>

\* The VideoCapture call of lines 63 and 74: the new object is opened, or
\* (while the failure budget lasts) it is not.
OpenCall(to) ==
  /\ \E ok \in BOOLEAN :
       /\ ok \/ nev < MaxEvents
       /\ nev' = IF ok THEN nev ELSE nev + 1
       /\ handles' = Append(handles, NewCapture(OpenTarget(url, last_url), ok))
  /\ cap' = Len(handles) + 1
  /\ pc' = to
  /\ slept' = FALSE
  /\ pending' = IF pending = url THEN None ELSE pending
  /\ UNCHANGED <<state, lock, url, frame, faces, jpeg, captured, emitted,
                 http, sinceStop, streak, superseded, fresh>>
  /\ UNCHANGED <<obs, readBroken, db>>

\* Lines 63-64: cap = cv2.VideoCapture(url); last_url = url.
Open1 ==
  /\ pc = "open1"
  /\ OpenCall(AfterOpen1)
  /\ last_url' = url

\* Line 65: time.sleep(0.5).
Sleep1 ==
  /\ pc = "sleep1"
  /\ pc' = "check"
  /\ slept' = TRUE
  /\ UNCHANGED <<state, lock, url, last_url, cap, frame, faces, jpeg, env,
                 emitted, http, sinceStop, streak, pending, superseded,
                 fresh>>
  /\ UNCHANGED <<obs, readBroken, db>>

\* Line 67: if cap is None or not cap.isOpened().
Check ==
  /\ pc = "check"
  /\ pc' = CheckBranch(cap)
  /\ UNCHANGED <<state, lock, url, last_url, cap, frame, faces, jpeg, env,
                 emitted, http, ghost>>
  /\ UNCHANGED <<obs, readBroken, db>>

\* Lines 69-73: cap.release() on the capture that is not opened.
Release2 ==
  /\ pc = "release2"
  /\ handles' = [handles EXCEPT ![cap] = Release(@)]
  /\ pc' = "open2"
  /\ UNCHANGED <<state, lock, url, last_url, cap, frame, faces, jpeg, captured,
                 nev, emitted, http, ghost>>
  /\ UNCHANGED <<obs, readBroken, db>>

\* Line 74: cap = cv2.VideoCapture(url).
Open2 ==
  /\ pc = "open2"
  /\ OpenCall("sleep2")
  /\ UNCHANGED last_url

\* Lines 75-76: time.sleep(1.0); continue.
Sleep2 ==
  /\ pc = "sleep2"
  /\ pc' = "top"
  /\ slept' = TRUE
  /\ UNCHANGED <<state, lock, url, last_url, cap, frame, faces, jpeg, env,
                 emitted, http, sinceStop, streak, pending, superseded,
                 fresh>>
  /\ UNCHANGED <<obs, readBroken, db>>

\* Lines 78-79: ret, frame = cap.read().  An opened capture delivers a frame
\* (with 0 or 1 detectable faces) or nothing; one that is not opened delivers
\* nothing.
Read ==
  /\ pc = "read"
  /\ \/ /\ IsOpened(cap)
        /\ nev < MaxEvents
        /\ nev' = nev + 1
        /\ \E b \in {0, 1} :
             /\ captured' = Append(captured, b)
             /\ frame' = [no |-> Len(captured) + 1, boxes |-> b, from |-> cap]
        /\ pc' = "transform"
        /\ UNCHANGED streak
        /\ readBroken' = readBroken
     \/ /\ UNCHANGED <<captured, nev>>
        /\ frame' = NoFrame
        /\ pc' = "miss"
        /\ streak' = IF IsOpened(cap) /\ state.rtsp_url = url /\ state.running
                     THEN [cap |-> cap,
                           n |-> IF streak.cap = cap
                                 THEN (IF streak.n < MaxMiss THEN streak.n + 1 ELSE MaxMiss)
                                 ELSE 1]
                     ELSE NoStreak
        /\ readBroken' = IF IsOpened(cap) THEN readBroken ELSE cap
  /\ UNCHANGED <<state, lock, url, last_url, cap, faces, jpeg, handles,
                 emitted, http, slept, sinceStop, pending, superseded, fresh>>
  /\ UNCHANGED <<obs, db>>

\* Lines 81-82: time.sleep(0.5); continue.
SleepMiss ==
  /\ pc = "miss"
  /\ pc' = AfterMiss
  /\ slept' = TRUE
  /\ UNCHANGED <<state, lock, url, last_url, cap, frame, faces, jpeg, env,
                 emitted, http, sinceStop, streak, pending, superseded,
                 fresh>>
  /\ UNCHANGED <<obs, readBroken, db>>

\* Lines 85-97: resize, grey, detectMultiScale, draw the rectangles.
Transform ==
  /\ pc = "transform"
  /\ faces' = CountFaces(frame)
  /\ pc' = "encode"
  /\ UNCHANGED <<state, lock, url, last_url, cap, frame, jpeg, env, emitted,
                 http, ghost>>
  /\ UNCHANGED <<obs, readBroken, db>>

\* Lines 100-101: _, jpeg = cv2.imencode('.jpg', frame); b64 = ...
\* imencode encodes, or returns (False, empty buffer), which the code does not
\* test, or raises cv2.error, which nothing in stream_worker catches.
Encode ==
  /\ pc = "encode"
  /\ \/ jpeg' = "ok" /\ pc' = "emit"
     \/ jpeg' = "empty" /\ pc' = "emit"
     \/ jpeg' = jpeg /\ pc' = "crashed"
  /\ UNCHANGED <<state, lock, url, last_url, cap, frame, faces, env, emitted,
                 http, ghost>>
  /\ UNCHANGED <<obs, readBroken, db>>

\* Line 104: socketio.emit('frame', {'image': b64, 'faces': len(faces)}).
Emit ==
  /\ pc = "emit"
  /\ emitted' = Append(emitted, Message(frame, jpeg, faces))
  /\ sinceStop' = IF Truthy(state.rtsp_url) THEN 0 ELSE sinceStop + 1
  /\ pc' = "pace"
  /\ UNCHANGED <<state, lock, url, last_url, cap, frame, faces, jpeg, env,
                 http, slept, streak, pending, superseded, fresh>>
  /\ UNCHANGED <<obs, readBroken, db>>

\* Line 107: time.sleep(0.03), then the next iteration.
Pace ==
  /\ pc = "pace"
  /\ pc' = "top"
  /\ slept' = TRUE
  /\ UNCHANGED <<state, lock, url, last_url, cap, frame, faces, jpeg, env,
                 emitted, http, sinceStop, streak, pending, superseded,
                 fresh>>
  /\ UNCHANGED <<obs, readBroken, db>>

\* Lines 109-114: release the capture the worker still holds.
Cleanup ==
  /\ pc = "cleanup"
  /\ handles' = IF cap # NoCap THEN [handles EXCEPT ![cap] = Release(@)] ELSE handles
  /\ pc' = "done"
  /\ UNCHANGED <<state, lock, url, last_url, cap, frame, faces, jpeg, captured,
                 nev, emitted, http, ghost>>
  /\ UNCHANGED <<obs, readBroken, db>>

Worker ==
  \/ Top \/ Acquire \/ Poll \/ Idle \/ Release1 \/ Open1 \/ Sleep1 \/ Check
  \/ Release2 \/ Open2 \/ Sleep2 \/ Read \/ SleepMiss \/ Transform \/ Encode
  \/ Emit \/ Pace \/ Cleanup

\* ----------------------------------------------------- the control plane
\* Rejects that tests `url is None` instead of `not url`.
RejectsOnlyAbsent(a) == a = None

\* Line 132: `if not url` rejects the request.
Rejects(a) == ~Truthy(a)

\* StoreUrl that keeps an address already configured.
StoreUrlKeepsFirst(old, new) == IF Truthy(old) THEN old ELSE new

\* Line 136: state['rtsp_url'] = url.
StoreUrl(old, new) == new

\* Lines 128-138: POST /set_stream.
SetStream(a) ==
  /\ nev < MaxEvents
  /\ lock = "free"
  /\ nev' = nev + 1
  /\ IF Rejects(a)
     THEN /\ http' = [op |-> "set_stream", code |-> 400,
                      ok |-> FALSE, echo |-> None]
          /\ UNCHANGED <<state, ghost, obs>>
     ELSE /\ state' = [state EXCEPT !.rtsp_url = StoreUrl(@, a)]
          /\ http' = [op |-> "set_stream", code |-> 200,
                      ok |-> TRUE, echo |-> a]
          /\ fresh' = FALSE
          /\ sinceStop' = 0
          /\ streak' = IF state'.rtsp_url = state.rtsp_url THEN streak ELSE NoStreak
          /\ superseded' = IF pending # None /\ pending # a THEN pending
                           ELSE IF superseded = a THEN None ELSE superseded
          /\ pending' = a
          /\ written' = a
          /\ kept' = IF kept # NoCap /\ handles[kept].url = a THEN kept ELSE NoCap
          /\ idled' = (idled /\ kept' # NoCap)
          /\ UNCHANGED slept
  /\ UNCHANGED <<lock, worker, handles, captured, emitted>>
  /\ UNCHANGED <<readBroken, db>>

\* StopState that also clears the running flag.
StopStateHalts(s) == [s EXCEPT !.rtsp_url = None, !.running = FALSE]

\* Line 144: state['rtsp_url'] = None.
StopState(s) == [s EXCEPT !.rtsp_url = None]

\* The worker holds an opened capture of the address it last opened and is
\* not on its way to another address.
Settled ==
  /\ IsOpened(cap)
  /\ state.running
  /\ url = last_url \/ ~Truthy(url)
  /\ pc \notin {"cleanup", "done"}

\* Lines 141-145: POST /stop_stream.
StopStream ==
  /\ nev < MaxEvents
  /\ lock = "free"
  /\ nev' = nev + 1
  /\ state' = StopState(state)
  /\ written' = None
  /\ kept' = IF Settled THEN cap ELSE NoCap
  /\ idled' = FALSE
  /\ http' = [op |-> "stop_stream", code |-> 200, ok |-> TRUE,
              echo |-> None]
  /\ fresh' = FALSE
  /\ sinceStop' = IF Truthy(state.rtsp_url) THEN 0 ELSE sinceStop
  /\ streak' = IF state.rtsp_url = None THEN streak ELSE NoStreak
  /\ pending' = None
  /\ UNCHANGED <<lock, worker, handles, captured, emitted, slept, superseded>>
  /\ UNCHANGED <<readBroken, db>>

\* Lines 147-151: GET /status (the body has no 'ok' key; code 200).
Status ==
  /\ nev < MaxEvents
  /\ lock = "free"
  /\ nev' = nev + 1
  /\ http' = [op |-> "status", code |-> 200, ok |-> TRUE,
              echo |-> state.rtsp_url]
  /\ UNCHANGED <<state, lock, worker, handles, captured, emitted, ghost>>
  /\ UNCHANGED <<obs, readBroken, db>>

\* stop() of the design: running := false.  No handler of server.py writes
\* state['running']; the flag is read at line 44.
Stop ==
  /\ state.running
  /\ state' = [state EXCEPT !.running = FALSE]
  /\ streak' = NoStreak
  /\ kept' = NoCap
  /\ idled' = FALSE
  /\ UNCHANGED <<lock, worker, env, emitted, http, slept, sinceStop,
                 pending, superseded, fresh>>
  /\ UNCHANGED <<written, readBroken, db>>

\* The source goes away: the worker's capture stops reporting isOpened().
Break ==
  /\ IsOpened(cap)
  /\ pc \notin {"done", "crashed"}
  /\ nev < MaxEvents
  /\ nev' = nev + 1
  /\ handles' = [handles EXCEPT ![cap].opened = FALSE]
  /\ streak' = NoStreak
  /\ kept' = NoCap
  /\ idled' = FALSE
  /\ UNCHANGED <<state, lock, worker, captured, emitted, http, slept,
                 sinceStop, pending, superseded, fresh>>
  /\ UNCHANGED <<written, readBroken, db>>

Next ==
  \/ Worker
  \/ \E a \in RequestArgs : SetStream(a)
  \/ StopStream
  \/ Status
  \/ Stop
  \/ Break

Spec == Init /\ [][Next]_vars

\* The worker thread is scheduled and each of its blocking calls returns.
LiveSpec == Spec /\ WF_vars(Worker)

\* ------------------------------------------------------------ properties
OpenPcs == {"open1", "open2"}
\* Positions of an iteration that found the address empty, and of the exit.
IdlePcs == {"idle", "top", "acquire", "poll", "cleanup", "done"}
Handles == 1..Len(handles)
\* A step that calls cv2.VideoCapture.
OpenStep == Len(handles') > Len(handles)
\* A step that calls socketio.emit.
EmitStep == Len(emitted') > Len(emitted)

\* C1: every capture object is released at most once; every capture the
\* worker no longer holds has been released exactly once; the capture it
\* holds is unreleased except between the release of line 71 and the open of
\* line 74 and after the final cleanup; and whenever the worker is about to
\* call cv2.VideoCapture, every capture made so far has been released once.
C1_ReleasedOnceBeforeOpen ==
  /\ \A h \in Handles :
       /\ handles[h].rel <= 1
       /\ (h # cap => handles[h].rel = 1)
       /\ (h = cap /\ handles[h].rel = 1 => pc \in {"open2", "done"})
  /\ (pc \in OpenPcs => \A h \in Handles : handles[h].rel = 1)

\* C1 witness: the worker saw a new address while holding an opened capture,
\* released it once and holds the capture of the new address.
C1_Witness ==
  /\ Len(handles) = 2
  /\ handles[1].ok
  /\ handles[1].url # handles[2].url
  /\ handles[1].rel = 1
  /\ cap = 2
  /\ pc = "sleep1"

\* C2: once the worker has polled the empty address written by stop_stream
\* (it is in the sleep of line 50), it holds no opened capture.
C2_StopReleasesConnection == pc = "idle" => ~IsOpened(cap)

\* C3 as stated: no socketio.emit happens while state['rtsp_url'] is empty.
C3_NoEmitWhileStopped == [][EmitStep => Truthy(state.rtsp_url)]_vars

\* C3 amended: while state['rtsp_url'] is empty, at most one frame has been
\* emitted since it became empty, and an iteration whose url was read after
\* the write is idle (it reads and emits nothing).
C3_AtMostInFlightEmit ==
  ~Truthy(state.rtsp_url) =>
    /\ sinceStop <= 1
    /\ (fresh => pc \in IdlePcs)

\* C3 witness: the iteration in flight emitted its frame after stop_stream.
C3_Witness == ~Truthy(state.rtsp_url) /\ sinceStop = 1 /\ http.op = "stop_stream"

\* C4 as stated: an address overwritten by a second set_stream before any
\* open call for it is never handed to cv2.VideoCapture.
C4_NeverOpensFirst ==
  [][OpenStep => handles'[Len(handles')].url # superseded]_vars

\* C4 amended: an open call of an iteration that read url after the last
\* write opens exactly state['rtsp_url'], never the overwritten address.
C4_LastWriteWinsAtPoll ==
  [][(OpenStep /\ fresh) =>
       /\ handles'[Len(handles')].url = state.rtsp_url
       /\ handles'[Len(handles')].url # superseded]_vars

\* C4 witness: camA was overwritten by camB before the worker polled; the
\* worker opened camB and no capture was ever made for camA.
C4_Witness ==
  /\ superseded = "camA"
  /\ state.rtsp_url = "camB"
  /\ fresh
  /\ pc = "sleep1"
  /\ handles[cap].url = "camB"
  /\ \A h \in Handles : handles[h].url # "camA"

\* C5: from the first failed read on an opened capture, while the desired
\* address, the running flag and the capture's openness do not change, the
\* worker keeps that capture: no release, no open call, and a frame read
\* afterwards comes from it.
C5_MissesDoNotReconnect ==
  streak # NoStreak =>
    /\ cap = streak.cap
    /\ Len(handles) = streak.cap
    /\ handles[cap].rel = 0
    /\ handles[cap].opened
    /\ pc \notin {"release1", "open1", "sleep1", "release2", "open2", "sleep2",
                  "cleanup", "done"}
    /\ (frame # NoFrame => frame.from = streak.cap)

\* C5 witness: MaxMiss consecutive misses, then a frame from the same capture.
C5_Witness == streak.n = MaxMiss /\ pc = "transform" /\ frame.from = streak.cap

\* C6: a sleep separates any two consecutive cv2.VideoCapture calls; the
\* retry of line 74 is on the address of the failed open; the retry path is
\* taken only while the capture does not report opened (no attempt after a
\* success that lasts); and an open attempt leads to the worker reading from
\* an opened capture on the address it polled, unless the desired address
\* moves away from that address or running is cleared first.
C6_RetryUntilOpen ==
  /\ [](pc \in OpenPcs /\ Len(handles) > 0 => slept)
  /\ [](pc = "open2" => url = last_url)
  /\ [](pc \in {"release2", "open2"} => ~IsOpened(cap))
  /\ (pc \in OpenPcs)
       ~> \/ (pc = "read" /\ IsOpened(cap) /\ handles[cap].url = url)
          \/ state.rtsp_url # url
          \/ ~state.running

\* C6 witness: the default address failed to open twice, the third capture
\* opened, and the worker is at its read with the address never changed.
C6_Witness ==
  /\ Len(handles) = 3
  /\ ~handles[1].ok /\ ~handles[2].ok /\ handles[3].ok
  /\ \A h \in Handles : handles[h].url = DefaultUrl
  /\ pc = "read"
  /\ IsOpened(cap)
  /\ http = NoHttp

C8_ExitThroughCleanup ==
  [][(~state.running /\ pc \notin {"done", "crashed"} /\ pc' \in {"done", "crashed"})
       => (pc' = "done" /\ \A h \in 1..Len(handles') : handles'[h].rel = 1)]_vars

\* C9: no error ends the worker, and no message is emitted for a frame whose
\* encoding failed.
C9_EncodeFailureDropsFrame ==
  /\ pc # "crashed"
  /\ \A i \in 1..Len(emitted) : emitted[i].image # 0

\* C10: set_stream with an absent or empty address answers 400 and changes
\* neither the shared state nor what the worker has read; with a non-empty
\* address it stores exactly that address and answers 200 echoing it; the
\* empty string is never stored nor read by the worker.
C10_SetStreamValidates ==
  /\ [](state.rtsp_url # "" /\ url # "")
  /\ [][\A a \in RequestArgs :
          SetStream(a) =>
            IF a = None \/ a = ""
            THEN /\ state' = state
                 /\ url' = url
                 /\ http'.code = 400
                 /\ ~http'.ok
            ELSE /\ state'.rtsp_url = a
                 /\ state'.running = state.running
                 /\ http'.code = 200
                 /\ http'.ok
                 /\ http'.echo = a]_vars

\* C10 witness: a rejected set_stream left the default address in place and
\* the worker went on to read from the capture of the default address.
C10_Witness ==
  /\ http.op = "set_stream"
  /\ http.code = 400
  /\ state.rtsp_url = DefaultUrl
  /\ pc = "read"
  /\ url = DefaultUrl

\* C11: every step of the worker that reads the shared state (the running
\* flag at the loop head, the address at the snapshot) is taken while the
\* worker holds state_lock, and every handler runs while the worker does not.
C11_AllAccessUnderLock ==
  [][/\ (Top \/ Poll) => lock = "worker"
     /\ (http' # http) => lock # "worker"]_vars

\* The worker's positions at which it opens, releases, reads, transforms,
\* encodes, publishes or sleeps.
BlockingPcs == {"idle", "release1", "open1", "sleep1", "check", "release2",
                "open2", "sleep2", "read", "miss", "transform", "encode",
                "emit", "pace", "cleanup"}

\* C12: the worker holds state_lock only at the snapshot assignment; at every
\* position where it opens, reads, releases, sleeps or publishes the lock is
\* free, so the guard of every handler (the lock being free) holds there.
C12_LockOnlyForSnapshot ==
  /\ lock = "worker" => pc = "poll"
  /\ pc \in BlockingPcs => lock = "free"

\* C12 witness: stop_stream completed while the worker, with an address
\* snapshot taken before that write, stands at cap.read().
C12_Witness ==
  /\ pc = "read"
  /\ Truthy(url)
  /\ ~fresh
  /\ http.op = "stop_stream"
  /\ state.rtsp_url = None
  /\ lock = "free"

\* C13: stop_stream writes the empty address and leaves the running flag as
\* it was, no handler (set_stream, stop_stream, status) changes the running
\* flag, and the worker leaves its loop through the loop condition only when
\* the running flag is false; with an empty snapshot it goes to the idle sleep.
C13_StopKeepsRunning ==
  /\ [][StopStream => /\ state'.rtsp_url = None
                      /\ state'.running = state.running]_vars
  /\ [][http' # http => state'.running = state.running]_vars
  /\ [](pc \in {"cleanup", "done"} => ~state.running)
  /\ [][Poll /\ ~Truthy(url') => pc' = "idle"]_vars

\* C13 witness: after stop_stream the running flag is still true and the
\* worker is in the idle sleep of an iteration that found the address empty.
C13_Witness ==
  /\ http.op = "stop_stream"
  /\ state.rtsp_url = None
  /\ state.running
  /\ pc = "idle"
  /\ url = None

\* C14: the address held in the shared state is always the one of the last
\* accepted write of the control plane (the configured default before any),
\* status answers with exactly that address whatever the worker's capture is
\* doing, and no step of the worker changes the shared state.
C14_StatusReturnsLastWrite ==
  /\ [](state.rtsp_url = written)
  /\ [][Status => /\ http'.echo = written
                  /\ http'.code = 200]_vars
  /\ [][Worker => state' = state]_vars

\* C14 witness: status answered with the address of the last set_stream while
\* the worker's capture of that address had failed to open.
C14_Witness ==
  /\ http.op = "status"
  /\ http.echo = "camA"
  /\ written = "camA"
  /\ cap # NoCap
  /\ handles[cap].url = "camA"
  /\ ~handles[cap].ok

\* ---------------------------------------------------------------------------
\* PostgresClient (dbProvider.py): the query each method composes.  A composed
\* query is the sequence of its psycopg2.sql parts: sql.SQL(t) is text put
\* into the statement verbatim, sql.Identifier(c) is c quoted as an
\* identifier, sql.Placeholder() is a %s bound to a parameter.
\* ---------------------------------------------------------------------------

\* Strings a caller passes as table and column names.
Names == {"users", "email"}
\* Values a caller passes in where, data and where_params.
Values == {"o'hare"}
\* where_sql of a caller (the docstring's example); absent or empty otherwise.
RawWhere == {"created_at > %s"}
WhereSqlArgs == {None, ""} \cup RawWhere
\* limit: absent (None) is << >>, an integer n is <<n>>.
Limits == {<< >>, <<0>>, <<5>>}

\* Lists of names of length at most MaxList; an absent list (None) and an
\* empty one take the same branches (if columns:, if order_by:, ...).
NameLists == UNION {[1..n -> Names] : n \in 0..MaxList}
\* Mappings column -> value, in iteration order: no key twice.
Mappings ==
  {m \in UNION {[1..n -> [k : Names, v : Values]] : n \in 0..MaxList} :
     \A i, j \in DOMAIN m : m[i].k = m[j].k => i = j}
ParamLists == {<< >>} \cup {<<v>> : v \in Values}

\* psycopg2.sql.SQL(t).
SQL(t) == [kind |-> "sql", text |-> t]

\* Identifier that puts the name into the statement text as it is.
IdentifierUnquoted(c) == [kind |-> "sql", text |-> c]

\* psycopg2.sql.Identifier(c).
Identifier(c) == [kind |-> "ident", text |-> c]

\* psycopg2.sql.Placeholder().
Placeholder == [kind |-> "ph", text |-> "%s"]

\* sep.join(parts): parts is a sequence of composed fragments.
RECURSIVE Join(_, _)
Join(sep, parts) ==
  IF parts = << >> THEN << >>
  ELSE IF Len(parts) = 1 THEN parts[1]
  ELSE parts[1] \o <<sep>> \o Join(sep, Tail(parts))

\* [sql.Identifier(c) for c in cs].
Idents(cs) == [i \in DOMAIN cs |-> <<Identifier(cs[i])>>]

\* where_parts: sql.SQL("{} = %s").format(sql.Identifier(k)) for each key.
WhereParts(w) == [i \in DOMAIN w |-> <<Identifier(w[i].k), SQL(" = %s")>>]

\* The values of a mapping, in its order.
MapValues(w) == [i \in DOMAIN w |-> w[i].v]

\* The WHERE clause: the dict when non-empty, else where_sql when non-empty.
WhereClause(where, where_sql) ==
  IF where # << >>
  THEN <<SQL(" WHERE ")>> \o Join(SQL(" AND "), WhereParts(where))
  ELSE IF Truthy(where_sql)
       THEN <<SQL(" WHERE "), SQL(where_sql)>>
       ELSE << >>

\* params after the WHERE clause is built.
WhereValues(where, where_sql, where_params) ==
  IF where # << >> THEN MapValues(where)
  ELSE IF Truthy(where_sql) THEN where_params
  ELSE << >>

\* select_from_table: the query and params handed to _execute.
SelectQuery(c) ==
  [text |->
     <<SQL("SELECT ")>>
     \o (IF c.columns # << >> THEN Join(SQL(", "), Idents(c.columns))
         ELSE <<SQL("*")>>)
     \o <<SQL(" FROM "), Identifier(c.table)>>
     \o WhereClause(c.where, c.where_sql)
     \o (IF c.order_by # << >>
         THEN <<SQL(" ORDER BY ")>> \o Join(SQL(", "), Idents(c.order_by))
         ELSE << >>)
     \o (IF c.limit # << >> THEN <<SQL(" LIMIT %s")>> ELSE << >>),
   params |-> WhereValues(c.where, c.where_sql, c.where_params) \o c.limit,
   raised |-> FALSE]

\* insert_into_table: ValueError on empty data, else the INSERT statement.
InsertQuery(c) ==
  IF c.data = << >>
  THEN [text |-> << >>, params |-> << >>, raised |-> TRUE]
  ELSE [text |->
          <<SQL("INSERT INTO "), Identifier(c.table), SQL(" (")>>
          \o Join(SQL(", "), Idents([i \in DOMAIN c.data |-> c.data[i].k]))
          \o <<SQL(") VALUES (")>>
          \o Join(SQL(", "), [i \in DOMAIN c.data |-> <<Placeholder>>])
          \o <<SQL(")")>>
          \o (IF c.return_columns # << >>
              THEN <<SQL(" RETURNING ")>>
                   \o Join(SQL(", "), Idents(c.return_columns))
              ELSE << >>),
        params |-> MapValues(c.data),
        raised |-> FALSE]

\* delete_from_table: ValueError without a where clause; with a limit the
\* statement is rebuilt around a ctid subquery that repeats the WHERE clause.
DeleteQuery(c) ==
  IF c.where = << >> /\ ~Truthy(c.where_sql)
  THEN [text |-> << >>, params |-> << >>, raised |-> TRUE]
  ELSE [text |->
          IF c.limit = << >>
          THEN <<SQL("DELETE FROM "), Identifier(c.table)>>
               \o WhereClause(c.where, c.where_sql)
          ELSE <<SQL("DELETE FROM "), Identifier(c.table),
                 SQL(" WHERE ctid IN (SELECT ctid FROM "), Identifier(c.table)>>
               \o WhereClause(c.where, c.where_sql)
               \o <<SQL(" LIMIT %s)")>>,
        params |-> WhereValues(c.where, c.where_sql, c.where_params) \o c.limit,
        raised |-> FALSE]

\* The calls a caller can make: the method and its arguments.
Calls ==
  {[NoCall EXCEPT !.op = "select", !.table = t, !.columns = cs, !.where = w,
                  !.where_sql = ws, !.where_params = wp, !.order_by = ob,
                  !.limit = l] :
     t \in Names, cs \in NameLists, w \in Mappings, ws \in WhereSqlArgs,
     wp \in ParamLists, ob \in NameLists, l \in Limits}
  \cup
  {[NoCall EXCEPT !.op = "insert", !.table = t, !.data = d,
                  !.return_columns = rc] :
     t \in Names, d \in Mappings, rc \in NameLists}
  \cup
  {[NoCall EXCEPT !.op = "delete", !.table = t, !.where = w, !.where_sql = ws,
                  !.where_params = wp, !.limit = l] :
     t \in Names, w \in Mappings, ws \in WhereSqlArgs, wp \in ParamLists,
     l \in Limits}

\* A caller invokes a method of the client.
CallMethod ==
  /\ dbcall = NoCall
  /\ dbcall' \in Calls
  /\ UNCHANGED <<server, dbquery>>

\* Lines 78-136: select_from_table(table, columns, where, where_sql,
\* where_params, order_by, limit).
SelectFromTable ==
  /\ dbcall.op = "select"
  /\ dbquery = NoQuery
  /\ dbquery' = SelectQuery(dbcall)
  /\ UNCHANGED <<server, dbcall>>

\* Lines 139-174: insert_into_table(table, data, return_columns).
InsertIntoTable ==
  /\ dbcall.op = "insert"
  /\ dbquery = NoQuery
  /\ dbquery' = InsertQuery(dbcall)
  /\ UNCHANGED <<server, dbcall>>

\* Lines 177-227: delete_from_table(table, where, where_sql, where_params,
\* limit).
DeleteFromTable ==
  /\ dbcall.op = "delete"
  /\ dbquery = NoQuery
  /\ dbquery' = DeleteQuery(dbcall)
  /\ UNCHANGED <<server, dbcall>>

DbNext == CallMethod \/ SelectFromTable \/ InsertIntoTable \/ DeleteFromTable

\* A client on which one of the three methods is called with any arguments.
DbSpec == Init /\ [][DbNext]_vars

\* The called method returned a composed query (it did not raise).
Composed == dbquery # NoQuery /\ ~dbquery.raised

\* Every string of the last call: names, values and where_sql.
CallerStrings ==
  {dbcall.table}
  \cup {dbcall.columns[i] : i \in DOMAIN dbcall.columns}
  \cup {dbcall.order_by[i] : i \in DOMAIN dbcall.order_by}
  \cup {dbcall.return_columns[i] : i \in DOMAIN dbcall.return_columns}
  \cup {dbcall.where[i].k : i \in DOMAIN dbcall.where}
  \cup {dbcall.where[i].v : i \in DOMAIN dbcall.where}
  \cup {dbcall.data[i].k : i \in DOMAIN dbcall.data}
  \cup {dbcall.data[i].v : i \in DOMAIN dbcall.data}
  \cup {dbcall.where_params[i] : i \in DOMAIN dbcall.where_params}
  \cup (IF Truthy(dbcall.where_sql) THEN {dbcall.where_sql} ELSE {})

\* The parts of the composed query that are statement text.
RawParts == {i \in DOMAIN dbquery.text : dbquery.text[i].kind = "sql"}

\* C15 as stated: in the query composed by any of the three methods, no part
\* that is statement text is a string of the caller; the caller's strings are
\* quoted identifiers or parameters only.
C15_NoRawCallerText ==
  Composed =>
    \A i \in RawParts : dbquery.text[i].text \notin CallerStrings

\* C15 amended: the only string of the caller that is statement text is
\* where_sql, placed directly after " WHERE " and only when the where mapping
\* is empty; every name is a quoted identifier and every value of the where
\* or data mapping is a parameter.
C15_OnlyWhereSqlRaw ==
  Composed =>
    /\ \A i \in RawParts :
         dbquery.text[i].text \in CallerStrings =>
           /\ dbquery.text[i].text = dbcall.where_sql
           /\ dbcall.op \in {"select", "delete"}
           /\ dbcall.where = << >>
           /\ i > 1
           /\ dbquery.text[i - 1] = SQL(" WHERE ")
    /\ \A i \in DOMAIN dbquery.text :
         dbquery.text[i].kind = "ident" => dbquery.text[i].text \in Names
    /\ \A i \in DOMAIN dbcall.where : dbquery.params[i] = dbcall.where[i].v
    /\ \A i \in DOMAIN dbcall.data : dbquery.params[i] = dbcall.data[i].v

\* C15 witness: a delete with where_sql only and a limit composed the ctid
\* subquery with where_sql as statement text after " WHERE ", the table as a
\* quoted identifier and where_params and the limit as parameters.
C15_Witness ==
  /\ dbcall.op = "delete"
  /\ dbcall.where = << >>
  /\ dbcall.where_sql \in RawWhere
  /\ dbcall.where_params # << >>
  /\ dbcall.limit = <<5>>
  /\ dbquery.text = <<SQL("DELETE FROM "), Identifier(dbcall.table),
                      SQL(" WHERE ctid IN (SELECT ctid FROM "),
                      Identifier(dbcall.table), SQL(" WHERE "),
                      SQL(dbcall.where_sql), SQL(" LIMIT %s)")>>
  /\ dbquery.params = dbcall.where_params \o <<5>>

\* A cap.read() is issued.
ReadStep == pc = "read" /\ pc' # "read"

\* C16: a capture found not opened by a read is read at most that once; the
\* retry of the connection check releases it before the VideoCapture call
\* and opens the new capture on the address of the broken one; and from a
\* read that found the capture broken the worker reaches a read on an opened
\* capture of the same address, unless the address is changed or the running
\* flag cleared meanwhile.
C16_BrokenHandleReopened ==
  /\ [][ReadStep /\ ~IsOpened(cap) => readBroken # cap]_vars
  /\ [][pc = "open2" /\ OpenStep =>
          /\ handles[cap].rel = 1
          /\ handles'[cap'].url = handles[cap].url
          /\ handles'[cap'].url = url]_vars
  /\ (pc = "miss" /\ readBroken = cap)
       ~> \/ pc = "read" /\ IsOpened(cap) /\ cap # readBroken
             /\ handles[cap].url = url
          \/ state.rtsp_url # url
          \/ ~state.running

\* C16 witness: the capture a read found broken has been released once and
\* the worker stands at a read on an opened new capture of the same address.
C16_Witness ==
  /\ readBroken # NoCap
  /\ handles[readBroken].rel = 1
  /\ cap # readBroken
  /\ pc = "read"
  /\ IsOpened(cap)
  /\ handles[cap].url = handles[readBroken].url

\* C17: while the snapshot of the current iteration is empty the worker is
\* only at the loop head, the snapshot, the idle sleep or its exit, and no
\* step taken with an empty snapshot opens a capture, reads, or publishes.
C17_EmptySnapshotOnlySleeps ==
  /\ [](~Truthy(url) => pc \in IdlePcs)
  /\ [][~Truthy(url) /\ ~Truthy(url') =>
          /\ ~OpenStep
          /\ ~ReadStep
          /\ ~EmitStep
          /\ captured' = captured]_vars
  /\ [][pc = "idle" /\ pc' # pc => pc' = "top" /\ slept' /\ cap' = cap]_vars

\* C17 witness: the worker is in the idle sleep with an empty snapshot taken
\* after stop_stream while it still holds the opened capture.
C17_Witness ==
  /\ pc = "idle"
  /\ url = None
  /\ IsOpened(cap)
  /\ http.op = "stop_stream"
  /\ fresh

\* C18: an address written by set_stream and not written over is eventually
\* the worker's snapshot (unless the running flag is cleared), and with that
\* address as fresh snapshot every VideoCapture call opens it and every read
\* is on a capture of it.
C18_LastWriteEventuallyPolled ==
  /\ \A a \in ClientUrls :
       (state.rtsp_url = a)
         ~> (url = a \/ state.rtsp_url # a \/ ~state.running)
  /\ [][fresh /\ OpenStep => handles'[cap'].url = state.rtsp_url]_vars
  /\ [][fresh /\ ReadStep => handles[cap].url = state.rtsp_url]_vars

\* Captures created and never released.
Unreleased == {h \in Handles : handles[h].rel = 0}

\* At most one capture is unreleased, it is the one the worker holds, and a
\* VideoCapture call is made only when every earlier capture is released.
OneHandle ==
  /\ [](Unreleased \subseteq {cap})
  /\ [][OpenStep => Unreleased = {}]_vars

\* C19 as stated: at most one unreleased capture, every open after the
\* release of the previous capture, and every read issued on the held capture
\* while it reports open.
C19_ReadOnlyWhileOpen ==
  /\ OneHandle
  /\ [][ReadStep => cap # NoCap /\ IsOpened(cap)]_vars

\* C19 amended: at most one unreleased capture, every open after the release
\* of the previous capture, and every read issued on the held capture, which
\* is the newest one, opened successfully, is not released and was not found
\* broken by an earlier read; it may have stopped reporting open since the
\* connection check of the iteration.
C19_ReadOnlyOnHeldHandle ==
  /\ OneHandle
  /\ [][ReadStep => /\ cap # NoCap
                    /\ cap = Len(handles)
                    /\ handles[cap].ok
                    /\ handles[cap].rel = 0
                    /\ readBroken # cap]_vars

\* C19 witness: a read was issued on the held, unreleased capture after it
\* stopped reporting open, with every earlier capture released.
C19_Witness ==
  /\ pc = "miss"
  /\ readBroken = cap
  /\ cap > 1
  /\ handles[cap].ok
  /\ Unreleased = {cap}

\* C20: from a stop_stream that found the worker holding an opened capture,
\* and for as long as the address is empty or is set again to the address of
\* that capture (and the source stays up and the program running), the
\* worker holds that same capture, unreleased and opened, last_url is its
\* address, no capture has been created since, and the worker is at no
\* release or VideoCapture call.
C20_IdleKeepsHandle ==
  kept # NoCap =>
    /\ cap = kept
    /\ Len(handles) = kept
    /\ handles[kept].rel = 0
    /\ IsOpened(kept)
    /\ last_url = handles[kept].url
    /\ state.rtsp_url \in {None, handles[kept].url}
    /\ pc \notin {"release1", "open1", "release2", "open2", "cleanup",
                  "done"}

\* C20 witness: after stop_stream the worker took the idle sleep, set_stream
\* wrote the address of the capture it still held, and the worker stands at a
\* read on that capture with that address as its snapshot.
C20_Witness ==
  /\ kept # NoCap
  /\ idled
  /\ http.op = "set_stream"
  /\ state.rtsp_url = handles[kept].url
  /\ url = state.rtsp_url
  /\ fresh
  /\ pc = "read"
  /\ cap = kept

====
